---------------------------- MODULE Spec2Model ----------------------------
(***************************************************************************)
(* Model of the AI autoscaler (ai-scaler-v3): the decision engine          *)
(* (decision_engine.py), the ML predictor's training and persistence       *)
(* life cycle (ml_predictor.py) and the control loop (ai_scaler_v3.py).    *)
(*                                                                         *)
(* Real-valued quantities are kept exact as scaled integers:               *)
(*   - per-axis scores are multiplied by ScoreDen(cfg) = 640*max_replicas, *)
(*     the common denominator of x/500, x/512, x/10 and pod/max_replicas;  *)
(*   - weights are in tenths, so a weighted total carries the extra        *)
(*     factor 10 (TotalDen);                                               *)
(*   - confidences and cpu_trend_strength are in tenths.                   *)
(* Time is in clock ticks; a cycle reads the clock once.                   *)
(***************************************************************************)
EXTENDS Integers, Sequences, FiniteSets, TLC

VARIABLES
    config,               \* self.config: scaling limits, cooldown, weights
    dry_run,              \* args.dry_run as parsed by main()
    health,               \* what prometheus.health_check() returned in run()
    feature_names,        \* the keys of the dict extract_features last returned
    pc,                   \* "start" | "running" | "sleeping" | "stopped" | "exited"
    exit_code,            \* process exit code once pc is stopped/exited
    now,                  \* the wall clock, time.time()
    last_scale_time,      \* self.last_scale_time (None until a scale succeeds)
    scale_history,        \* self.scale_history
    metrics_history,      \* len(self.metrics_history)
    deployment_replicas,  \* the orchestrator's deployment.spec.replicas
    ml_predictor,         \* MLPredictor's in-memory state
    model_file,           \* models/scaler_model.pkl on disk
    features,             \* the feature vector of the last cycle / decision
    decision,             \* the Decision last returned by make_decision
    cycle,                \* what the last cycle did (the cycle's log lines)
    v2                    \* the V2 autoscaler (ai_scaler_v2.py) and its last iteration

vars == <<config, dry_run, feature_names,
          health, pc, exit_code, now, last_scale_time,
          scale_history, metrics_history, deployment_replicas, ml_predictor,
          model_file, features, decision, cycle, v2>>

-----------------------------------------------------------------------------
(* Program constants *)

target_cpu == 500
target_memory == 512
target_network == 10
scale_up_score == 60
scale_down_score == 30
low_score_override == 25
boundary_low_score == 10
boundary_high_score == 90
large_difference == 2
idle_cpu_per_pod == 5
very_low_cpu_per_pod == 10
rapid_cpu_trend == 50
ml_confidence_threshold == 6
min_samples_for_training == 20
retrain_every == 10
keep_last == 100
default_current_replicas == 1
history_limit == 100
min_history_for_stats == 2
min_history_for_trend == 10
min_prediction == 1

None == -1

Max(a, b) == IF a >= b THEN a ELSE b
Min(a, b) == IF a <= b THEN a ELSE b
\* The difference taken with its sign.
Abs_Signed(a) == a
Abs(a) == IF a >= 0 THEN a ELSE -a
\* The quotient rounded down.
Ceil_Floor(a, b) == a \div b
\* ceil(a / b) for a >= 0, b > 0
Ceil(a, b) == (a + b - 1) \div b

-----------------------------------------------------------------------------
(* DecisionEngine *)

\* Denominator carried by every per-axis score of configuration cfg.
ScoreDen(cfg) == 640 * cfg.max_replicas
\* Denominator carried by total_score (weights are tenths).
TotalDen(cfg) == 10 * ScoreDen(cfg)

\* total_score > n and total_score < n on the scaled total.
ScoreAbove(cfg, scores, n) == scores.total_score > n * TotalDen(cfg)
ScoreBelow(cfg, scores, n) == scores.total_score < n * TotalDen(cfg)

calculate_weighted_score(cfg, f) ==
    LET D == ScoreDen(cfg)
        cpu_score == Min((f.cpu_current * 100 * D) \div target_cpu, 100 * D)
        memory_score == Min((f.memory_current * 100 * D) \div target_memory, 100 * D)
        network_score == Min((f.network_total * 100 * D) \div target_network, 100 * D)
        cost_score == Max(100 * D - (f.pod_count * 100 * D) \div cfg.max_replicas, 0)
    IN  [cpu_score |-> cpu_score,
         memory_score |-> memory_score,
         network_score |-> network_score,
         cost_score |-> cost_score,
         total_score |-> cpu_score * cfg.weights.cpu
                         + memory_score * cfg.weights.memory
                         + network_score * cfg.weights.network
                         + cost_score * cfg.weights.cost]

Clamp(cfg, n) == Max(cfg.min_replicas, Min(n, cfg.max_replicas))

\* calculate_optimal_replicas without its very-low-CPU branch.
calculate_optimal_replicas_AlwaysMax(cfg, f) ==
    LET pod_count == f.pod_count
        cpu_based_replicas ==
            IF f.cpu_current > 0
            THEN Ceil(f.cpu_current * pod_count, target_cpu)
            ELSE pod_count
        memory_based_replicas ==
            IF f.memory_current > 0
            THEN Ceil(f.memory_current * pod_count, target_memory)
            ELSE pod_count
    IN  Clamp(cfg, Max(cpu_based_replicas, memory_based_replicas))

calculate_optimal_replicas(cfg, f) ==
    LET pod_count == f.pod_count
        cpu_based_replicas ==
            IF f.cpu_current > 0
            THEN Ceil(f.cpu_current * pod_count, target_cpu)
            ELSE pod_count
        memory_based_replicas ==
            IF f.memory_current > 0
            THEN Ceil(f.memory_current * pod_count, target_memory)
            ELSE pod_count
        \* cpu_per_pod < 10.0, with cpu_per_pod = cpu_current / pod_count
        \* when pod_count > 0 and cpu_current otherwise
        very_low_cpu ==
            IF pod_count > 0
            THEN f.cpu_current < very_low_cpu_per_pod * pod_count
            ELSE f.cpu_current < very_low_cpu_per_pod
        optimal_replicas ==
            IF very_low_cpu
            THEN cpu_based_replicas
            ELSE Max(cpu_based_replicas, memory_based_replicas)
    IN  Clamp(cfg, optimal_replicas)

\* should_scale returns (bool, reason); the reason names the condition.
should_scale(cfg, current_replicas, predicted_replicas, scores, f) ==
    LET idle ==
            IF current_replicas > 0
            THEN f.cpu_current < idle_cpu_per_pod * current_replicas
            ELSE f.cpu_current < idle_cpu_per_pod
    IN  IF Abs(predicted_replicas - current_replicas) >= large_difference
        THEN [scale |-> TRUE, reason |-> "large_difference"]
        ELSE IF ScoreAbove(cfg, scores, scale_up_score)
                /\ predicted_replicas > current_replicas
        THEN [scale |-> TRUE, reason |-> "high_load"]
        ELSE IF ScoreBelow(cfg, scores, scale_down_score)
                /\ predicted_replicas < current_replicas
        THEN [scale |-> TRUE, reason |-> "low_load"]
        ELSE IF idle /\ predicted_replicas < current_replicas
        THEN [scale |-> TRUE, reason |-> "very_low_cpu"]
        ELSE IF f.cpu_trend > rapid_cpu_trend
                /\ predicted_replicas > current_replicas
        THEN [scale |-> TRUE, reason |-> "rapid_cpu_increase"]
        ELSE IF predicted_replicas = cfg.min_replicas
                /\ ScoreBelow(cfg, scores, boundary_low_score)
        THEN [scale |-> TRUE, reason |-> "at_minimum"]
        ELSE IF predicted_replicas = cfg.max_replicas
                /\ ScoreAbove(cfg, scores, boundary_high_score)
        THEN [scale |-> TRUE, reason |-> "at_maximum"]
        ELSE [scale |-> FALSE, reason |-> "dampening"]

\* _calculate_confidence adding the two parts without halving the sum.
calculate_confidence_Sum(cfg, scores, f) ==
    LET score_confidence ==
            IF ScoreAbove(cfg, scores, 80) \/ ScoreBelow(cfg, scores, 20) THEN 9
            ELSE IF ScoreAbove(cfg, scores, 60) \/ ScoreBelow(cfg, scores, 40) THEN 7
            ELSE 5
    IN  Min(2 * (score_confidence + f.cpu_trend_strength), 20)

\* _calculate_confidence, in twentieths: (score_confidence + trend_strength)/2
calculate_confidence(cfg, scores, f) ==
    LET score_confidence ==
            IF ScoreAbove(cfg, scores, 80) \/ ScoreBelow(cfg, scores, 20) THEN 9
            ELSE IF ScoreAbove(cfg, scores, 60) \/ ScoreBelow(cfg, scores, 40) THEN 7
            ELSE 5
    IN  Min(score_confidence + f.cpu_trend_strength, 20)

\* make_decision trusting a confidence of exactly 0.6.
UseML_Inclusive(cfg, scores, ml) ==
    /\ ~ScoreBelow(cfg, scores, low_score_override)
    /\ ml.replicas # None
    /\ ml.confidence >= ml_confidence_threshold

\* make_decision's fusion: the ML prediction is taken when the score is not
\* very low, a prediction was returned and its confidence is above 0.6.
UseML(cfg, scores, ml) ==
    /\ ~ScoreBelow(cfg, scores, low_score_override)
    /\ ml.replicas # None
    /\ ml.confidence > ml_confidence_threshold

\* make_decision reporting the optimal count as target whatever the action.
decision_target_Optimal(scale, optimal_replicas, current_replicas) ==
    optimal_replicas

\* make_decision's target: the optimal count when should_scale said to
\* scale, the current count otherwise.
decision_target(scale, optimal_replicas, current_replicas) ==
    IF scale THEN optimal_replicas ELSE current_replicas

\* The part of make_decision that builds the Decision from the features and
\* from what MLPredictor.predict returned (ml.replicas = None: no prediction).
Decide(cfg, f, ml) ==
    LET current_replicas == f.pod_count
        scores == calculate_weighted_score(cfg, f)
        rule_based_replicas == calculate_optimal_replicas(cfg, f)
        low == ScoreBelow(cfg, scores, low_score_override)
        use_ml == UseML(cfg, scores, ml)
        optimal_replicas == IF use_ml THEN ml.replicas ELSE rule_based_replicas
        decision_source == IF low THEN "rule_low_score"
                           ELSE IF use_ml THEN "ml" ELSE "rule_fallback"
        ss == should_scale(cfg, current_replicas, optimal_replicas, scores, f)
        action == IF ss.scale
                  THEN (IF optimal_replicas > current_replicas
                        THEN "scale_up" ELSE "scale_down")
                  ELSE "no_change"
        target_replicas ==
            decision_target(ss.scale, optimal_replicas, current_replicas)
    IN  [current_replicas |-> current_replicas,
         target_replicas |-> target_replicas,
         optimal_replicas |-> optimal_replicas,
         rule_based_replicas |-> rule_based_replicas,
         ml_replicas |-> ml.replicas,
         ml_confidence |-> ml.confidence,
         decision_source |-> decision_source,
         action |-> action,
         should_scale |-> ss.scale,
         reason |-> ss.reason,
         scores |-> scores,
         confidence |-> calculate_confidence(cfg, scores, f)]

-----------------------------------------------------------------------------
(* MLPredictor *)

\* An estimator (the regressor or the feature scaler): whether it has been
\* fit, on how many buffered samples, and at which value of the sample counter.
Unfitted == [fitted |-> FALSE, n_samples |-> 0, at |-> 0]
FittedOn(n, at) == [fitted |-> TRUE, n_samples |-> n, at |-> at]

\* MLPredictor.__init__ before load_model(): new estimators, empty buffers.
\* train_log (the "Training model with N samples..." log lines of this
\* object, as the set of sample counters at which add_training_sample ran a
\* training) and start_samples (the counter after construction) are
\* bookkeeping of the object's history.
FreshPredictor ==
    [model |-> Unfitted,
     scaler |-> Unfitted,
     training_features |-> 0,
     training_labels |-> 0,
     is_trained |-> FALSE,
     training_samples |-> 0,
     start_samples |-> 0,
     train_log |-> {}]

\* The model file: kind says whether it exists and unpickles, missing names
\* a key the pickled dictionary lacks ("none": it has all six).
NoFile ==
    [kind |-> "none", missing |-> "none",
     model |-> Unfitted, scaler |-> Unfitted,
     training_samples |-> 0, is_trained |-> FALSE,
     training_features |-> 0, training_labels |-> 0]

CorruptFile == [NoFile EXCEPT !.kind = "corrupt"]

\* save_model dumping the whole sample buffer.
model_data_Untrimmed(p) ==
    [kind |-> "saved",
     missing |-> "none",
     model |-> p.model,
     scaler |-> p.scaler,
     training_samples |-> p.training_samples,
     is_trained |-> p.is_trained,
     training_features |-> p.training_features,
     training_labels |-> p.training_labels]

\* save_model trimming the feature list only.
model_data_LabelsUntrimmed(p) ==
    [kind |-> "saved",
     missing |-> "none",
     model |-> p.model,
     scaler |-> p.scaler,
     training_samples |-> p.training_samples,
     is_trained |-> p.is_trained,
     training_features |-> Min(p.training_features, keep_last),
     training_labels |-> p.training_labels]

\* The model_data dictionary save_model dumps: the lists keep the last 100.
model_data(p) ==
    [kind |-> "saved",
     missing |-> "none",
     model |-> p.model,
     scaler |-> p.scaler,
     training_samples |-> p.training_samples,
     is_trained |-> p.is_trained,
     training_features |-> Min(p.training_features, keep_last),
     training_labels |-> Min(p.training_labels, keep_last)]

\* save_model: joblib.dump either writes the file or raises (caught); a
\* failed dump leaves the old file or a truncated one.
save_model(p, file, outcome) ==
    CASE outcome = "ok" -> model_data(p)
      [] outcome = "error_kept" -> file
      [] OTHER -> CorruptFile

SaveOutcomes == {"ok", "error_kept", "error_corrupt"}

\* The keys load_model reads with model_data[key], in the order of its
\* assignments; a missing one raises KeyError there.
RequiredKeys == <<"model", "scaler", "training_samples", "is_trained">>

\* The keys load_model reads with model_data.get(key, []).
OptionalKeys == {"training_features", "training_labels"}

\* Whether load_model raises (and returns False from its except clause):
\* joblib.load fails, or a required key is missing.
LoadFails(file) ==
    \/ file.kind = "corrupt"
    \/ /\ file.kind = "saved"
       /\ \E i \in DOMAIN RequiredKeys : RequiredKeys[i] = file.missing

\* load_model on a freshly constructed predictor p: without a file, or when
\* joblib.load raises, nothing is assigned; otherwise the assignments run
\* in order up to the first required key the dictionary lacks.
load_model(p, file) ==
    IF file.kind # "saved"
    THEN p
    ELSE LET stop == IF LoadFails(file)
                     THEN CHOOSE i \in DOMAIN RequiredKeys :
                              RequiredKeys[i] = file.missing
                     ELSE Len(RequiredKeys) + 1
             training_samples == IF 3 < stop THEN file.training_samples
                                 ELSE p.training_samples
         IN  [p EXCEPT
                !.model = IF 1 < stop THEN file.model ELSE @,
                !.scaler = IF 2 < stop THEN file.scaler ELSE @,
                !.training_samples = training_samples,
                !.is_trained = IF 4 < stop THEN file.is_trained ELSE @,
                !.training_features =
                    IF LoadFails(file) THEN @
                    ELSE IF file.missing = "training_features" THEN 0
                    ELSE file.training_features,
                !.training_labels =
                    IF LoadFails(file) THEN @
                    ELSE IF file.missing = "training_labels" THEN 0
                    ELSE file.training_labels,
                !.start_samples = training_samples]

\* MLPredictor(model_path): __init__ ends with load_model().
NewPredictor(file) == load_model(FreshPredictor, file)

\* train(): where it stops. "ok": runs to the end; "scaler_error":
\* scaler.fit_transform raises; "fit_error": model.fit raises;
\* "score_error": model.score raises. A call that raises leaves the
\* estimator it was made on as it was.
TrainOutcomes == {"ok", "scaler_error", "fit_error", "score_error"}

\* train() without its guard.
EnoughSamples_Unguarded(p) == TRUE

\* The guard at the head of train().
EnoughSamples(p) == p.training_features >= min_samples_for_training

\* train() returns the predictor; the file is written by save_model at its end.
train(p, outcome) ==
    IF ~EnoughSamples(p) THEN p
    ELSE LET fit == FittedOn(p.training_features, p.training_samples)
         IN  CASE outcome = "scaler_error" -> p
               [] outcome = "fit_error" -> [p EXCEPT !.scaler = fit]
               [] OTHER -> [p EXCEPT !.scaler = fit, !.model = fit,
                                     !.is_trained = TRUE]

\* Whether train() reaches save_model().
TrainSaves(p, outcome) == EnoughSamples(p) /\ outcome = "ok"

\* add_training_sample retraining on every sample once there are enough.
ShouldAutoTrain_EverySample(samples) == samples >= min_samples_for_training

\* The retraining schedule of add_training_sample.
ShouldAutoTrain(samples) ==
    samples >= min_samples_for_training /\ samples % retrain_every = 0

\* add_training_sample: returns the predictor and the file.
add_training_sample(p, file, train_outcome, save_outcome) ==
    LET q == [p EXCEPT !.training_features = @ + 1,
                       !.training_labels = @ + 1,
                       !.training_samples = @ + 1]
        auto == ShouldAutoTrain(q.training_samples)
        r == IF auto THEN train(q, train_outcome) ELSE q
    IN  [predictor |-> IF auto /\ EnoughSamples(q)
                       THEN [r EXCEPT !.train_log = @ \cup {q.training_samples}]
                       ELSE r,
         file |-> IF auto /\ TrainSaves(q, train_outcome)
                  THEN save_model(r, file, save_outcome)
                  ELSE file]

\* What predict can return: (None, 0.0) when not trained or on an exception,
\* otherwise (max(1, round(prediction)), confidence in [0,1]).
NoPrediction == [replicas |-> None, confidence |-> 0]

\* MLPredictor.predict: every (replicas, confidence) it can return in
\* predictor state p. The regressor's output is an input of the model.
MaxPrediction == 3
\* In tenths: 0.6 (the threshold itself, not trusted) and 0.7 (trusted).
ConfidenceLevels == {6, 7}

\* predict answering whether or not the model is trained.
predict_Untrained(p) ==
    {NoPrediction}
    \cup {[replicas |-> Max(min_prediction, r), confidence |-> c] :
              r \in 0..MaxPrediction, c \in ConfidenceLevels}

predict(p) ==
    IF ~p.is_trained
    THEN {NoPrediction}
    ELSE {NoPrediction}
         \cup {[replicas |-> Max(min_prediction, r), confidence |-> c] :
                   r \in 0..MaxPrediction, c \in ConfidenceLevels}

-----------------------------------------------------------------------------
(* FeatureEngineer / PrometheusClient *)

\* _extract_current_features and _extract_trend_features, for the fields the
\* decision reads; m is what get_comprehensive_metrics and the history gave.
extract_features(m) ==
    [pod_count |-> m.pod_count,
     cpu_current |-> m.cpu_per_pod,
     memory_current |-> m.memory_per_pod_mb,
     network_total |-> m.network_in_mbps + m.network_out_mbps,
     cpu_trend |-> m.cpu_trend,
     cpu_trend_strength |-> m.cpu_trend_strength]

\* The keys each part of extract_features contributes. n is the number of
\* points of the metric's history (get_historical_cpu; the memory history
\* is always empty).
current_feature_names ==
    {"pod_count", "cpu_current", "cpu_total", "memory_current",
     "memory_total", "network_in_rate", "network_out_rate", "network_total",
     "cpu_per_pod_ratio", "memory_per_pod_ratio"}

historical_feature_names(metric_name, n) ==
    {metric_name \o "_avg_15m", metric_name \o "_avg_1h",
     metric_name \o "_max_15m", metric_name \o "_min_15m",
     metric_name \o "_std_15m"}
    \cup (IF n < min_history_for_stats THEN {}
          ELSE {metric_name \o "_volatility"})

time_feature_names ==
    {"hour_of_day", "day_of_week", "is_business_hours", "is_weekend",
     "is_peak_hour", "hour_sin", "hour_cos", "day_sin", "day_cos"}

trend_feature_names(metric_name, n) ==
    {metric_name \o "_trend", metric_name \o "_trend_strength"}
    \cup (IF n < min_history_for_trend THEN {}
          ELSE {metric_name \o "_rate_of_change"})

pattern_feature_names(metric_name) ==
    {metric_name \o "_pattern", metric_name \o "_is_increasing",
     metric_name \o "_is_stable", metric_name \o "_is_decreasing"}

\* The keys of the dict extract_features builds when nothing raises, for a
\* cpu history of n points.
extract_feature_names(n) ==
    current_feature_names
    \cup historical_feature_names("cpu", n)
    \cup historical_feature_names("memory", 0)
    \cup time_feature_names
    \cup trend_feature_names("cpu", n)
    \cup trend_feature_names("memory", 0)
    \cup pattern_feature_names("cpu")

\* The keys of _get_default_features.
default_feature_names ==
    current_feature_names
    \cup {"cpu_avg_15m", "cpu_max_15m", "cpu_min_15m", "cpu_std_15m",
          "cpu_avg_1h", "cpu_volatility", "cpu_trend", "cpu_trend_strength",
          "cpu_rate_of_change", "cpu_pattern", "cpu_is_increasing",
          "cpu_is_stable", "cpu_is_decreasing"}
    \cup time_feature_names

\* The keys extract_ml_features reads with features.get(key, default).
ml_feature_names ==
    {"cpu_current", "memory_current", "network_total", "cpu_avg", "cpu_max",
     "cpu_min", "cpu_std", "memory_avg", "memory_max", "cpu_trend",
     "cpu_trend_strength", "pod_count"}

\* A cpu history long enough for every statistic (15 minutes at 15 s).
full_history == 60

\* What the PrometheusClient getters return when every query fails:
\* get_pod_count 0, every usage 0.0, an empty history (trend 0.0).
FailedMetrics ==
    [pod_count |-> 0, cpu_per_pod |-> 0, memory_per_pod_mb |-> 0,
     network_in_mbps |-> 0, network_out_mbps |-> 0,
     cpu_trend |-> 0, cpu_trend_strength |-> 0]

\* _get_default_features, returned when extraction raises.
get_default_features ==
    [pod_count |-> 1, cpu_current |-> 0, memory_current |-> 0,
     network_total |-> 0, cpu_trend |-> 0, cpu_trend_strength |-> 0]

-----------------------------------------------------------------------------
(* AIScalerV3 *)

\* Outcome of a call to the orchestrator's API: it returns, raises
\* ApiException, or raises something else (a transport error).
ApiOutcomes == {"ok", "api_exception", "other_exception"}

\* check_cooldown measuring the elapsed time against check_interval.
check_cooldown_WrongPeriod(cfg, lst, t) ==
    IF lst = None THEN TRUE
    ELSE ~(t - lst < cfg.check_interval)

\* check_cooldown at clock reading t: TRUE when scaling is allowed.
check_cooldown(cfg, lst, t) ==
    IF lst = None THEN TRUE
    ELSE ~(t - lst < cfg.cooldown_period)

\* get_current_replicas returning 0 on ApiException.
get_current_replicas_Zero(outcome, replicas) ==
    IF outcome = "ok" THEN replicas ELSE 0

\* get_current_replicas: the replica count, 1 on ApiException.
get_current_replicas(outcome, replicas) ==
    IF outcome = "ok" THEN replicas ELSE default_current_replicas

\* Whether scale_deployment gets as far as patch_namespaced_deployment.
PatchIssued(scale_read) == scale_read = "ok"

\* scale_deployment calling patch_namespaced_deployment again after an
\* ApiException.
patch_calls_Retried(scale_read, patch) ==
    IF ~PatchIssued(scale_read) THEN 0
    ELSE IF patch = "api_exception" THEN 2 ELSE 1

\* How many times scale_deployment calls patch_namespaced_deployment: once
\* when its read of the deployment returned, whatever the call's outcome.
patch_calls(scale_read, patch) ==
    IF PatchIssued(scale_read) THEN 1 ELSE 0

\* scale_deployment updating its state whenever the patch was sent.
StateUpdated_OnAttempt(patch) == patch # "none"

\* Whether scale_deployment reaches its state update (last_scale_time,
\* scale_history), which follows the patch call inside the try block.
StateUpdated(patch) == patch = "ok"

\* scale_deployment clearing last_scale_time when it did not scale.
new_last_scale_time_Cleared(lst, patch, t) ==
    IF StateUpdated(patch) THEN t ELSE None

\* last_scale_time after the cycle: time.time() as read in
\* scale_deployment's state update, otherwise what it was.
new_last_scale_time(lst, patch, t) ==
    IF StateUpdated(patch) THEN t ELSE lst

\* The steps of a cycle in the order of run_scaling_cycle's statements;
\* extract_features makes its queries before it computes anything.
StepOrder ==
    <<"metrics", "features", "decision", "actuation", "history_append">>

StepRank(s) == CHOOSE i \in DOMAIN StepOrder : StepOrder[i] = s

\* run_scaling_cycle storing the metrics history before it actuates.
cycle_steps_AppendFirst(actuates, appended) ==
    <<"metrics", "features", "decision">>
    \o (IF appended THEN <<"history_append">> ELSE <<>>)
    \o (IF actuates THEN <<"actuation">> ELSE <<>>)

\* The steps a cycle that got past get_current_replicas ran, in order:
\* scale_deployment when it actuates, the append when it reached it.
cycle_steps(actuates, appended) ==
    <<"metrics", "features", "decision">>
    \o (IF actuates THEN <<"actuation">> ELSE <<>>)
    \o (IF appended THEN <<"history_append">> ELSE <<>>)

\* Whether the cycle's transport errors end it in its except clause.
Raised(c) ==
    \/ c.read = "other_exception"
    \/ c.scale_read = "other_exception"
    \/ c.patch = "other_exception"

\* run_scaling_cycle checking the cooldown before a scale up only.
Actuates_ScaleDownUnchecked(cfg, lst, t, d) ==
    \/ d.action = "scale_down"
    \/ d.action = "scale_up" /\ check_cooldown(cfg, lst, t)

\* Whether the cycle calls scale_deployment for decision d at clock reading t.
Actuates(cfg, lst, t, d) ==
    /\ d.action \in {"scale_up", "scale_down"}
    /\ check_cooldown(cfg, lst, t)

NoFeatures ==
    [pod_count |-> None, cpu_current |-> 0, memory_current |-> 0,
     network_total |-> 0, cpu_trend |-> 0, cpu_trend_strength |-> 0]

NoScores ==
    [cpu_score |-> 0, memory_score |-> 0, network_score |-> 0,
     cost_score |-> 0, total_score |-> 0]

NoDecision ==
    [current_replicas |-> None, target_replicas |-> None,
     optimal_replicas |-> None, rule_based_replicas |-> None,
     ml_replicas |-> None, ml_confidence |-> 0, decision_source |-> "none",
     action |-> "none", should_scale |-> FALSE, reason |-> "none",
     scores |-> NoScores, confidence |-> 0]

\* The record of a cycle: what it read, decided and did.
NoCycle ==
    [ran |-> FALSE, at |-> 0, read |-> "none", current_replicas |-> None,
     metrics |-> "none", decided |-> FALSE, cooldown_blocked |-> FALSE,
     scale_read |-> "none", patch |-> "none", patches |-> 0,
     appended |-> FALSE, steps |-> <<>>]

-----------------------------------------------------------------------------
(* AIAutoscaler (ai-scaler-v2/ai_scaler_v2.py) *)

v2_min_replicas == 1
v2_max_replicas == 6
v2_scale_up_threshold == 250
v2_scale_down_threshold == 50
v2_min_history == 20
v2_train_every == 10
v2_history_limit == 1000
v2_large_difference == 2
v2_low_cpu == 100
v2_high_cpu == 800

\* The autoscaler's state and the log of its last iteration. history is
\* len(self.metrics_history), fitted whether self.model has been fit,
\* replicas the deployment's spec.replicas; patched is the replica count
\* handed to patch_namespaced_deployment in the iteration (None: no call).
NoV2 ==
    [pc |-> "off", iteration |-> 0, history |-> 0, fitted |-> FALSE,
     replicas |-> 0, got_metrics |-> FALSE, cpu_millicores |-> 0,
     num_pods |-> 0, current_replicas |-> None, predicted_replicas |-> None,
     should_scale |-> FALSE, patched |-> None, raised |-> FALSE]

\* simple_heuristic: one pod more or less, from the average CPU per pod.
simple_heuristic(metrics) ==
    IF metrics.cpu_millicores > v2_scale_up_threshold
    THEN Min(metrics.num_pods + 1, v2_max_replicas)
    ELSE IF metrics.cpu_millicores < v2_scale_down_threshold
            /\ metrics.num_pods > v2_min_replicas
    THEN Max(metrics.num_pods - 1, v2_min_replicas)
    ELSE metrics.num_pods

\* predict_optimal_replicas on metrics that are not None: the heuristic
\* below 20 history entries, otherwise the model's rounded output raw,
\* constrained; model.predict raises on a model that was never fit.
predict_optimal_replicas(metrics, history, fitted, raw) ==
    IF history < v2_min_history
    THEN [raised |-> FALSE, replicas |-> simple_heuristic(metrics)]
    ELSE IF ~fitted
    THEN [raised |-> TRUE, replicas |-> None]
    ELSE [raised |-> FALSE,
          replicas |-> Max(v2_min_replicas, Min(v2_max_replicas, raw))]

\* The dampening condition of run(), for predicted # current.
v2_should_scale(predicted, current, cpu) ==
    \/ predicted > current /\ cpu > v2_scale_up_threshold
    \/ predicted < current /\ cpu < v2_scale_down_threshold
    \/ Abs(predicted - current) >= v2_large_difference
    \/ predicted = v2_min_replicas /\ cpu < v2_low_cpu
    \/ predicted = v2_max_replicas /\ cpu > v2_high_cpu

\* set_replicas patching the count it was given.
set_replicas_Unconstrained(replicas) == replicas

\* set_replicas: the count it writes into the deployment.
set_replicas(replicas) ==
    Max(v2_min_replicas, Min(v2_max_replicas, replicas))

-----------------------------------------------------------------------------
(* Bounds and inputs *)

MaxTime == 2
MaxPods == 4
MaxSamples == 42
MaxSleep == 2
InitialReplicas == 3

DefaultWeights == [cpu |-> 4, memory |-> 3, network |-> 2, cost |-> 1]

\* Weights a configuration file sets to 0.5 each (tenths).
OverriddenWeights == [cpu |-> 5, memory |-> 5, network |-> 5, cost |-> 5]

\* _get_default_config, a configuration file with other scaling limits, and
\* one that also overrides the weights.
\* Times are in ticks of check_interval.
Configs ==
    {[min_replicas |-> 1, max_replicas |-> 10, check_interval |-> 1,
      cooldown_period |-> 2, weights |-> DefaultWeights],
     [min_replicas |-> 2, max_replicas |-> 3, check_interval |-> 1,
      cooldown_period |-> 2, weights |-> DefaultWeights],
     [min_replicas |-> 1, max_replicas |-> 5, check_interval |-> 1,
      cooldown_period |-> 2, weights |-> OverriddenWeights]}

\* Readings of the metrics backend the control loop is run on.
LoopMetrics ==
    {[pod_count |-> n, cpu_per_pod |-> c, memory_per_pod_mb |-> 0,
      network_in_mbps |-> 0, network_out_mbps |-> 0,
      cpu_trend |-> 0, cpu_trend_strength |-> 0] :
         n \in {1, MaxPods}, c \in {3, 700}}

\* A predictor that collected n samples and trained at the n-th.
PredictorAt(n) ==
    train([FreshPredictor EXCEPT !.training_features = n,
                                 !.training_labels = n,
                                 !.training_samples = n],
          "ok")

\* A predictor that collected 20 samples and trained, as train() leaves it.
TrainedPredictor ==
    train([FreshPredictor EXCEPT !.training_features = min_samples_for_training,
                                 !.training_labels = min_samples_for_training,
                                 !.training_samples = min_samples_for_training],
          "ok")

\* The model file an earlier run saved after its first training.
TrainedFile == model_data(TrainedPredictor)

-----------------------------------------------------------------------------
(* The control loop *)

Init ==
    /\ config \in Configs
    /\ dry_run \in BOOLEAN
    /\ health = "unknown"
    /\ feature_names = {}
    /\ pc = "start"
    /\ exit_code = None
    /\ now = 0
    /\ last_scale_time = None
    /\ scale_history = <<>>
    /\ metrics_history = 0
    /\ deployment_replicas = InitialReplicas
    /\ model_file = NoFile
    /\ ml_predictor = NewPredictor(model_file)
    /\ features = NoFeatures
    /\ decision = NoDecision
    /\ cycle = NoCycle
    /\ v2 = NoV2

\* run(): the health check passes and the loop starts.
StartHealthy ==
    /\ pc = "start"
    /\ health' = "ok"
    /\ pc' = "running"
    /\ UNCHANGED <<config, dry_run, feature_names,
                   exit_code, now, last_scale_time,
                   scale_history, metrics_history, deployment_replicas,
                   ml_predictor, model_file, features, decision, cycle, v2>>

\* run() logging the failed health check and going on to the loop.
StartUnhealthy_Continues ==
    /\ pc = "start"
    /\ health' = "failed"
    /\ pc' = "running"
    /\ UNCHANGED <<config, dry_run, feature_names,
                   exit_code, now, last_scale_time,
                   scale_history, metrics_history, deployment_replicas,
                   ml_predictor, model_file, features, decision, cycle, v2>>

\* run(): the health check fails, sys.exit(1).
StartUnhealthy ==
    /\ pc = "start"
    /\ health' = "failed"
    /\ pc' = "exited"
    /\ exit_code' = 1
    /\ UNCHANGED <<config, dry_run, feature_names, now, last_scale_time,
                   scale_history, metrics_history, deployment_replicas,
                   ml_predictor, model_file, features, decision, cycle, v2>>

\* The calls scale_deployment can make and how they end:
\* <<read_namespaced_deployment, patch_namespaced_deployment>>.
ScaleOutcomes ==
    {<<"api_exception", "none">>, <<"other_exception", "none">>,
     <<"ok", "ok">>, <<"ok", "api_exception">>, <<"ok", "other_exception">>}

\* make_decision feeding every decision back, no_change included.
Feedback_Always(p, file, d, train_outcome, save_outcome) ==
    add_training_sample(p, file, train_outcome, save_outcome)

\* make_decision feeding back only the decisions to scale up.
Feedback_OnScaleUp(p, file, d, train_outcome, save_outcome) ==
    IF d.action = "scale_up"
    THEN add_training_sample(p, file, train_outcome, save_outcome)
    ELSE [predictor |-> p, file |-> file]

\* make_decision's learning feedback: the predictor and file after it.
Feedback(p, file, d, train_outcome, save_outcome) ==
    IF d.action # "no_change"
    THEN add_training_sample(p, file, train_outcome, save_outcome)
    ELSE [predictor |-> p, file |-> file]

\* A cycle that raised in get_current_replicas: nothing else ran.
CycleRaisedAtRead ==
    /\ cycle' = [NoCycle EXCEPT !.ran = TRUE, !.at = now,
                                !.read = "other_exception"]
    /\ UNCHANGED <<last_scale_time, scale_history, metrics_history,
                   deployment_replicas, ml_predictor, model_file,
                   features, decision>>

\* The rest of run_scaling_cycle, after get_current_replicas returned.
CycleBody(read, kind, f, d, train_outcome, save_outcome, sc) ==
    LET current_replicas == get_current_replicas(read, deployment_replicas)
        fb == Feedback(ml_predictor, model_file, d, train_outcome, save_outcome)
        actuates == Actuates(config, last_scale_time, now, d)
        blocked == d.action \in {"scale_up", "scale_down"} /\ ~actuates
        scale_read == IF actuates THEN sc[1] ELSE "none"
        patch == IF actuates /\ PatchIssued(scale_read) THEN sc[2] ELSE "none"
        c == [ran |-> TRUE, at |-> now, read |-> read,
              current_replicas |-> current_replicas, metrics |-> kind,
              decided |-> TRUE, cooldown_blocked |-> blocked,
              scale_read |-> scale_read, patch |-> patch,
              patches |-> IF actuates THEN patch_calls(scale_read, patch)
                          ELSE 0,
              appended |-> FALSE, steps |-> <<>>]
        appended == ~blocked /\ ~Raised(c)
    IN  /\ features' = f
        /\ decision' = d
        /\ ml_predictor' = fb.predictor
        /\ model_file' = fb.file
        /\ deployment_replicas' = IF patch = "ok" THEN d.target_replicas
                                  ELSE deployment_replicas
        /\ last_scale_time' = new_last_scale_time(last_scale_time, patch, now)
        /\ scale_history' = IF StateUpdated(patch)
                            THEN Append(scale_history,
                                        [timestamp |-> now,
                                         replicas |-> d.target_replicas])
                            ELSE scale_history
        /\ metrics_history' = IF appended
                              THEN Min(metrics_history + 1, history_limit)
                              ELSE metrics_history
        /\ cycle' = [c EXCEPT !.appended = appended,
                              !.steps = cycle_steps(actuates, appended)]

\* Every way extract_features can end: engineered features of a reading,
\* the zeros of failed queries, or the default vector after an exception.
FeatureOutcomes ==
    {<<"ok", extract_features(m), extract_feature_names(full_history)>> :
         m \in LoopMetrics}
    \cup {<<"failed", extract_features(FailedMetrics),
            extract_feature_names(0)>>,
          <<"raised", get_default_features, default_feature_names>>}

\* run_scaling_cycle handing the orchestrator's replica count to the
\* decision as the current count.
cycle_decision_FromOrchestrator(cfg, current_replicas, f, ml) ==
    Decide(cfg, [f EXCEPT !.pod_count = current_replicas], ml)

\* The Decision of a cycle: make_decision(features=features); the
\* current_replicas the cycle read from the orchestrator is only logged and
\* stored in the metrics history.
cycle_decision(cfg, current_replicas, f, ml) == Decide(cfg, f, ml)

\* run() ending when a cycle raised.
after_cycle_RaisedExits(c) ==
    IF Raised(c) THEN "exited" ELSE "sleeping"

\* Where run() is after run_scaling_cycle returned: the cycle's except
\* clause caught whatever was raised, and the loop goes on to its sleep.
after_cycle(c) == "sleeping"

\* One iteration of run()'s loop body up to the sleep.
RunScalingCycle ==
    /\ pc = "running"
    /\ \E read \in ApiOutcomes :
         IF read = "other_exception"
         THEN CycleRaisedAtRead /\ UNCHANGED feature_names
         ELSE \E fo \in FeatureOutcomes, ml \in predict(ml_predictor) :
                LET d == cycle_decision(
                             config,
                             get_current_replicas(read, deployment_replicas),
                             fo[2], ml)
                    trains == d.action # "no_change"
                              /\ ShouldAutoTrain(ml_predictor.training_samples + 1)
                    acts == Actuates(config, last_scale_time, now, d)
                IN  \E tr \in (IF trains THEN TrainOutcomes ELSE {"ok"}),
                       sv \in (IF trains THEN SaveOutcomes ELSE {"ok"}),
                       sc \in (IF acts THEN ScaleOutcomes ELSE {<<"none", "none">>}) :
                      /\ CycleBody(read, fo[1], fo[2], d, tr, sv, sc)
                      /\ feature_names' = fo[3]
    /\ pc' = after_cycle(cycle')
    /\ UNCHANGED <<config, dry_run, health, exit_code, now, v2>>

\* time.sleep(check_interval): the clock moves on by at least the interval.
Sleep ==
    /\ pc = "sleeping"
    /\ pc' = "running"
    /\ \E dt \in config.check_interval..MaxSleep :
         /\ now + dt <= MaxTime
         /\ now' = now + dt
    /\ UNCHANGED <<config, dry_run, feature_names,
                   health, exit_code, last_scale_time,
                   scale_history, metrics_history, deployment_replicas,
                   ml_predictor, model_file, features, decision, cycle, v2>>

\* KeyboardInterrupt: print_summary and a normal exit.
Interrupt ==
    /\ pc \in {"running", "sleeping"}
    /\ pc' = "stopped"
    /\ exit_code' = 0
    /\ UNCHANGED <<config, dry_run, feature_names, health, now, last_scale_time,
                   scale_history, metrics_history, deployment_replicas,
                   ml_predictor, model_file, features, decision, cycle, v2>>

Next ==
    \/ StartHealthy
    \/ StartUnhealthy
    \/ RunScalingCycle
    \/ Sleep
    \/ Interrupt

Spec == Init /\ [][Next]_vars

\* The loop under its scheduling: time.sleep returns.
SpecLive == Spec /\ WF_vars(Sleep)

-----------------------------------------------------------------------------
(* The decision engine on its own: an engine is built over a predictor     *)
(* (new, or loaded from the file of an earlier run) and make_decision is   *)
(* called on a feature vector.                                             *)

DecisionFeatures ==
    {[pod_count |-> n, cpu_current |-> c, memory_current |-> m,
      network_total |-> w, cpu_trend |-> t, cpu_trend_strength |-> r] :
         n \in 0..MaxPods, c \in {0, 3, 100, 450, 700}, m \in {0, 150, 480, 600},
         w \in {0, 2, 8, 15}, t \in {0, 75}, r \in {0, 10}}

\* The scenarios of decision_engine.py's self-test. cpu_trend is kept in
\* whole units (the stable scenario's 0.5 is 0): it is only compared with 50.
LowLoad ==
    [pod_count |-> 3, cpu_current |-> 100, memory_current |-> 150,
     network_total |-> 2, cpu_trend |-> 0, cpu_trend_strength |-> 5]
HighLoad ==
    [pod_count |-> 2, cpu_current |-> 700, memory_current |-> 600,
     network_total |-> 15, cpu_trend |-> 10, cpu_trend_strength |-> 8]
StableLoad ==
    [pod_count |-> 3, cpu_current |-> 450, memory_current |-> 480,
     network_total |-> 8, cpu_trend |-> 0, cpu_trend_strength |-> 3]
Scenarios == {LowLoad, HighLoad, StableLoad}

InitDecision ==
    /\ config \in Configs
    /\ dry_run = FALSE
    /\ health = "unknown"
    /\ feature_names = {}
    /\ pc = "start"
    /\ exit_code = None
    /\ now = 0
    /\ last_scale_time = None
    /\ scale_history = <<>>
    /\ metrics_history = 0
    /\ deployment_replicas = InitialReplicas
    /\ model_file \in {NoFile, TrainedFile}
    /\ ml_predictor = NewPredictor(model_file)
    /\ features = NoFeatures
    /\ decision = NoDecision
    /\ cycle = NoCycle
    /\ v2 = NoV2

\* make_decision(features): predict, decide, feed the sample back.
MakeDecision ==
    /\ pc = "start"
    /\ pc' = "decided"
    /\ \E f \in DecisionFeatures \cup Scenarios, ml \in predict(ml_predictor) :
         LET d == Decide(config, f, ml)
             trains == d.action # "no_change"
                       /\ ShouldAutoTrain(ml_predictor.training_samples + 1)
         IN  \E tr \in (IF trains THEN TrainOutcomes ELSE {"ok"}),
                sv \in (IF trains THEN SaveOutcomes ELSE {"ok"}) :
               LET fb == Feedback(ml_predictor, model_file, d, tr, sv)
               IN  /\ features' = f
                   /\ decision' = d
                   /\ ml_predictor' = fb.predictor
                   /\ model_file' = fb.file
    /\ UNCHANGED <<config, dry_run, feature_names,
                   health, exit_code, now, last_scale_time,
                   scale_history, metrics_history, deployment_replicas, cycle, v2>>

NextDecision == MakeDecision

SpecDecision == InitDecision /\ [][NextDecision]_vars

-----------------------------------------------------------------------------
(* The predictor's life cycle: samples are added, training runs on its     *)
(* schedule (or is called directly) and saves the model, and a restart of  *)
(* the program builds a new MLPredictor that loads the file.               *)

InitML ==
    /\ config \in {c \in Configs : c.max_replicas = 10}
    /\ dry_run = FALSE
    /\ health = "ok"
    /\ feature_names = {}
    /\ pc = "running"
    /\ exit_code = None
    /\ now = 0
    /\ last_scale_time = None
    /\ scale_history = <<>>
    /\ metrics_history = 0
    /\ deployment_replicas = InitialReplicas
    /\ model_file = NoFile
    /\ ml_predictor = NewPredictor(model_file)
    /\ features = NoFeatures
    /\ decision = NoDecision
    /\ cycle = NoCycle
    /\ v2 = NoV2

MLUnchanged ==
    UNCHANGED <<config, dry_run, feature_names,
                health, pc, exit_code, now, last_scale_time,
                scale_history, metrics_history, deployment_replicas,
                features, decision, cycle, v2>>

\* add_training_sample(features, actual_replicas), while the sample
\* counter is below limit.
AddSampleUpTo(limit) ==
    /\ ml_predictor.training_samples < limit
    /\ LET trains == ShouldAutoTrain(ml_predictor.training_samples + 1)
       IN  \E tr \in (IF trains THEN TrainOutcomes ELSE {"ok"}),
              sv \in (IF trains THEN SaveOutcomes ELSE {"ok"}) :
             LET r == add_training_sample(ml_predictor, model_file, tr, sv)
             IN  /\ ml_predictor' = r.predictor
                 /\ model_file' = r.file
    /\ MLUnchanged

AddTrainingSample == AddSampleUpTo(MaxSamples)

\* train() called directly.
Train ==
    /\ \E tr \in TrainOutcomes, sv \in SaveOutcomes :
         /\ ml_predictor' = train(ml_predictor, tr)
         /\ model_file' = IF TrainSaves(ml_predictor, tr)
                          THEN save_model(train(ml_predictor, tr), model_file, sv)
                          ELSE model_file
    /\ MLUnchanged

\* The program is started again: MLPredictor(model_path).
Restart ==
    /\ ml_predictor' = NewPredictor(model_file)
    /\ UNCHANGED model_file
    /\ MLUnchanged

NextML ==
    \/ AddTrainingSample
    \/ Train
    \/ Restart

SpecML == InitML /\ [][NextML]_vars

-----------------------------------------------------------------------------
(* Persistence late in a run: the predictor has collected 90 samples, its  *)
(* training at the 90th succeeded and was saved; samples go on being added *)
(* past the 100 the file keeps, and the program is restarted at any time.  *)

MaxLateSamples == 112

\* The predictor after keep_last - retrain_every samples, every scheduled
\* training having run to its end.
LatePredictor ==
    LET n == keep_last - retrain_every
        p == train([FreshPredictor EXCEPT !.training_features = n,
                                          !.training_labels = n,
                                          !.training_samples = n],
                   "ok")
    IN  [p EXCEPT !.train_log = {k \in 1..n : ShouldAutoTrain(k)}]

InitPersist ==
    /\ config \in {c \in Configs : c.max_replicas = 10}
    /\ dry_run = FALSE
    /\ health = "ok"
    /\ feature_names = {}
    /\ pc = "running"
    /\ exit_code = None
    /\ now = 0
    /\ last_scale_time = None
    /\ scale_history = <<>>
    /\ metrics_history = 0
    /\ deployment_replicas = InitialReplicas
    /\ ml_predictor = LatePredictor
    /\ model_file = model_data(ml_predictor)
    /\ features = NoFeatures
    /\ decision = NoDecision
    /\ cycle = NoCycle
    /\ v2 = NoV2

AddLateSample == AddSampleUpTo(MaxLateSamples)

NextPersist ==
    \/ AddLateSample
    \/ Restart

SpecPersist == InitPersist /\ [][NextPersist]_vars

-----------------------------------------------------------------------------
(* The feature engineer on its own: extract_features is called on a        *)
(* reading of the metrics backend with a cpu history of some length, or    *)
(* raises inside and returns the default vector.                           *)

MaxHistory == 11

InitFeatures ==
    /\ config \in Configs
    /\ dry_run = FALSE
    /\ health = "unknown"
    /\ feature_names = {}
    /\ pc = "start"
    /\ exit_code = None
    /\ now = 0
    /\ last_scale_time = None
    /\ scale_history = <<>>
    /\ metrics_history = 0
    /\ deployment_replicas = InitialReplicas
    /\ model_file = NoFile
    /\ ml_predictor = NewPredictor(model_file)
    /\ features = NoFeatures
    /\ decision = NoDecision
    /\ cycle = NoCycle
    /\ v2 = NoV2

\* Readings of the metrics backend, the failed one included.
FeatureReadings ==
    {[pod_count |-> n, cpu_per_pod |-> c, memory_per_pod_mb |-> m,
      network_in_mbps |-> 0, network_out_mbps |-> 0,
      cpu_trend |-> 0, cpu_trend_strength |-> 0] :
         n \in {1, MaxPods}, c \in {3, 700}, m \in {0, 480}}
    \cup {FailedMetrics}

FeaturesUnchanged ==
    UNCHANGED <<config, dry_run, health, exit_code, now, last_scale_time,
                scale_history, metrics_history, deployment_replicas,
                ml_predictor, model_file, decision, cycle, v2>>

\* extract_features returning the dict it built.
ExtractFeatures ==
    /\ pc = "start"
    /\ pc' = "extracted"
    /\ \E m \in FeatureReadings, n \in 0..MaxHistory,
          trend \in {0, 75}, strength \in {0, 5} :
         LET short == n < min_history_for_trend
             h == [m EXCEPT !.cpu_trend = IF short THEN 0 ELSE trend,
                            !.cpu_trend_strength = IF short THEN 0 ELSE strength]
         IN  /\ features' = extract_features(h)
             /\ feature_names' = extract_feature_names(n)
    /\ FeaturesUnchanged

\* extract_features raising inside its try block: _get_default_features().
ExtractFeaturesRaised ==
    /\ pc = "start"
    /\ pc' = "extracted"
    /\ features' = get_default_features
    /\ feature_names' = default_feature_names
    /\ FeaturesUnchanged

NextFeatures ==
    \/ ExtractFeatures
    \/ ExtractFeaturesRaised

SpecFeatures == InitFeatures /\ [][NextFeatures]_vars

-----------------------------------------------------------------------------
(* The scale history over a long run: scale_deployment is called for an    *)
(* oscillating workload (2 replicas at even ticks, 1 at odd ticks); a call *)
(* that succeeds is followed by the next tick, one that fails is retried.  *)

MaxCalls == 101

InitHistory ==
    /\ config \in Configs
    /\ dry_run = FALSE
    /\ health = "ok"
    /\ feature_names = {}
    /\ pc = "running"
    /\ exit_code = None
    /\ now = 0
    /\ last_scale_time = None
    /\ scale_history = <<>>
    /\ metrics_history = 0
    /\ deployment_replicas = InitialReplicas
    /\ model_file = NoFile
    /\ ml_predictor = NewPredictor(model_file)
    /\ features = NoFeatures
    /\ decision = NoDecision
    /\ cycle = NoCycle
    /\ v2 = NoV2

\* scale_deployment(target_replicas) at clock reading now.
ScaleDeployment ==
    /\ now < MaxCalls
    /\ \E sc \in ScaleOutcomes :
         LET target_replicas == 2 - (now % 2)
             patch == IF PatchIssued(sc[1]) THEN sc[2] ELSE "none"
         IN  /\ deployment_replicas' = IF patch = "ok" THEN target_replicas
                                       ELSE deployment_replicas
             /\ IF StateUpdated(patch)
                THEN /\ last_scale_time' = now
                     /\ scale_history' = Append(scale_history,
                                                [timestamp |-> now,
                                                 replicas |-> target_replicas])
                     /\ now' = now + 1
                ELSE UNCHANGED <<last_scale_time, scale_history, now>>
    /\ UNCHANGED <<config, dry_run, feature_names,
                   health, pc, exit_code, metrics_history,
                   ml_predictor, model_file, features, decision, cycle, v2>>

NextHistory == ScaleDeployment

SpecHistory == InitHistory /\ [][NextHistory]_vars

-----------------------------------------------------------------------------
(* One cycle of the control loop late in a run: the predictor trained at   *)
(* its 20th sample and has collected nine more. Either a patch succeeded   *)
(* one tick ago, so the cooldown is running, or every patch so far failed. *)

\* One sample short of the second scheduled training.
RunningSamples == min_samples_for_training + retrain_every - 1

RunningPredictor ==
    [PredictorAt(min_samples_for_training) EXCEPT
        !.training_features = RunningSamples,
        !.training_labels = RunningSamples,
        !.training_samples = RunningSamples,
        !.train_log = {n \in 1..RunningSamples : ShouldAutoTrain(n)}]

InitRetrain ==
    /\ config \in Configs
    /\ dry_run = FALSE
    /\ health = "ok"
    /\ feature_names = {}
    /\ pc = "running"
    /\ exit_code = None
    /\ now = 1
    /\ last_scale_time \in {None, 0}
    /\ scale_history = IF last_scale_time = None THEN <<>>
                       ELSE <<[timestamp |-> last_scale_time,
                               replicas |-> InitialReplicas]>>
    /\ metrics_history = 1
    /\ deployment_replicas = InitialReplicas
    /\ model_file = model_data(PredictorAt(min_samples_for_training))
    /\ ml_predictor = RunningPredictor
    /\ features = NoFeatures
    /\ decision = NoDecision
    /\ cycle = NoCycle
    /\ v2 = NoV2

NextRetrain ==
    \/ RunScalingCycle
    \/ Interrupt

SpecRetrain == InitRetrain /\ [][NextRetrain]_vars

-----------------------------------------------------------------------------
(* Construction of the predictor on a model file found on disk: one the    *)
(* program saved, one cut short, or one whose dictionary lacks a key.      *)

\* Sample counters of the predictors whose saved files are loaded.
SavedCounts == {20, 30, 40, 50, 60, 70, 80, 90}

\* The files MLPredictor.__init__ can find at model_path.
FilesOnDisk ==
    {NoFile, CorruptFile}
    \cup {[model_data(PredictorAt(n)) EXCEPT !.missing = k] :
             n \in SavedCounts,
             k \in {"none"} \cup {RequiredKeys[i] : i \in DOMAIN RequiredKeys}
                            \cup OptionalKeys}

InitLoad ==
    /\ config \in {c \in Configs : c.max_replicas = 10}
    /\ dry_run = FALSE
    /\ health = "unknown"
    /\ feature_names = {}
    /\ pc = "start"
    /\ exit_code = None
    /\ now = 0
    /\ last_scale_time = None
    /\ scale_history = <<>>
    /\ metrics_history = 0
    /\ deployment_replicas = InitialReplicas
    /\ model_file \in FilesOnDisk
    /\ ml_predictor = FreshPredictor
    /\ features = NoFeatures
    /\ decision = NoDecision
    /\ cycle = NoCycle
    /\ v2 = NoV2

\* MLPredictor.__init__: load_model() on the new object.
LoadModel ==
    /\ pc = "start"
    /\ pc' = "running"
    /\ ml_predictor' = load_model(ml_predictor, model_file)
    /\ UNCHANGED model_file
    /\ UNCHANGED <<config, dry_run, feature_names, health, exit_code, now,
                   last_scale_time, scale_history, metrics_history,
                   deployment_replicas, features, decision, cycle, v2>>

NextLoad == LoadModel

SpecLoad == InitLoad /\ [][NextLoad]_vars

-----------------------------------------------------------------------------
(* The V2 autoscaler's loop. It starts on the history file and the model   *)
(* file of an earlier run, if any, and on a deployment whose replica count *)
(* is not its own doing. The runs are shorter than the ten iterations to   *)
(* the first training of a run: a fitted model is one loaded from the      *)
(* model file.                                                             *)

MaxIterations == 3

\* What get_current_metrics returns when it returns metrics.
V2Metrics ==
    {[cpu_millicores |-> c, num_pods |-> n] :
         c \in {30, 80, 150, 300, 900}, n \in {1, 3, 7}}

\* The model's rounded output.
V2RawPredictions == {0, 4, 8}

\* How set_replicas' two API calls end: <<read, patch>>.
V2SetOutcomes == {<<"error", "none">>, <<"ok", "ok">>, <<"ok", "error">>}

V3Unchanged ==
    UNCHANGED <<config, dry_run, feature_names, health, pc, exit_code, now,
                last_scale_time, scale_history, metrics_history,
                deployment_replicas, ml_predictor, model_file, features,
                decision, cycle>>

InitV2 ==
    /\ config \in {c \in Configs : c.max_replicas = 10}
    /\ dry_run = FALSE
    /\ health = "unknown"
    /\ feature_names = {}
    /\ pc = "start"
    /\ exit_code = None
    /\ now = 0
    /\ last_scale_time = None
    /\ scale_history = <<>>
    /\ metrics_history = 0
    /\ deployment_replicas = InitialReplicas
    /\ model_file = NoFile
    /\ ml_predictor = NewPredictor(model_file)
    /\ features = NoFeatures
    /\ decision = NoDecision
    /\ cycle = NoCycle
    /\ \E h \in {0, v2_min_history - 1}, fitted \in BOOLEAN, r \in {2, 9} :
         v2 = [NoV2 EXCEPT !.pc = "running", !.history = h,
                           !.fitted = fitted, !.replicas = r]

\* One iteration of run()'s loop, up to its sleep.
V2Iteration ==
    /\ v2.pc = "running"
    /\ v2.iteration < MaxIterations
    /\ \E got \in BOOLEAN, metrics \in V2Metrics, read \in {"ok", "error"},
          raw \in V2RawPredictions, sr \in V2SetOutcomes :
         LET iteration == v2.iteration + 1
             start == [v2 EXCEPT !.iteration = iteration,
                                 !.got_metrics = got,
                                 !.cpu_millicores = 0, !.num_pods = 0,
                                 !.current_replicas = None,
                                 !.predicted_replicas = None,
                                 !.should_scale = FALSE, !.patched = None,
                                 !.raised = FALSE]
             history == Min(v2.history + 1, v2_history_limit)
             trains == iteration % v2_train_every = 0
                       /\ history >= v2_min_history
             fitted == v2.fitted \/ trains
             current == IF read = "ok" THEN v2.replicas ELSE None
             p == predict_optimal_replicas(metrics, history, fitted, raw)
             differs == p.replicas # current
             scales == differs /\ current # None
                       /\ v2_should_scale(p.replicas, current,
                                          metrics.cpu_millicores)
             seen == [start EXCEPT !.history = history, !.fitted = fitted,
                                   !.cpu_millicores = metrics.cpu_millicores,
                                   !.num_pods = metrics.num_pods,
                                   !.current_replicas = current]
         IN  IF ~got
             THEN v2' = start
             ELSE IF p.raised
             THEN v2' = [seen EXCEPT !.raised = TRUE]
             ELSE IF differs /\ current = None
             THEN v2' = [seen EXCEPT !.predicted_replicas = p.replicas,
                                     !.raised = TRUE]
             ELSE IF ~scales
             THEN v2' = [seen EXCEPT !.predicted_replicas = p.replicas]
             ELSE v2' = [seen EXCEPT
                           !.predicted_replicas = p.replicas,
                           !.should_scale = TRUE,
                           !.patched = IF sr[1] = "ok"
                                       THEN set_replicas(p.replicas)
                                       ELSE None,
                           !.replicas = IF sr[2] = "ok"
                                        THEN set_replicas(p.replicas)
                                        ELSE @]
    /\ V3Unchanged

\* KeyboardInterrupt: the loop breaks.
V2Interrupt ==
    /\ v2.pc = "running"
    /\ v2' = [v2 EXCEPT !.pc = "stopped"]
    /\ V3Unchanged

NextV2 ==
    \/ V2Iteration
    \/ V2Interrupt

SpecV2 == InitV2 /\ [][NextV2]_vars

-----------------------------------------------------------------------------
(* Properties *)

ScaleActions == {"scale_up", "scale_down"}

\* A step of the control loop that ran a scaling cycle.
CycleStep == pc = "running" /\ pc' = "sleeping"

\* C1: every Decision make_decision returns has
\* min_replicas <= target_replicas <= max_replicas.
C1_TargetWithinLimits ==
    decision.action # "none"
        => /\ config.min_replicas <= decision.target_replicas
           /\ decision.target_replicas <= config.max_replicas

\* C2: a cycle whose clock reading lies in [t, t + cooldown_period) for the
\* time t of some earlier successful scale issues no patch, whatever the
\* cycles in between decided.
C2_NoPatchDuringCooldown ==
    [][CycleStep =>
         \A i \in DOMAIN scale_history :
             (scale_history[i].timestamp <= now
                /\ now < scale_history[i].timestamp + config.cooldown_period)
                 => cycle'.patch = "none"]_vars

\* C2 witness: after a successful scale a cycle decided to scale again and
\* was stopped by the cooldown.
C2_Witness ==
    /\ scale_history # <<>>
    /\ cycle.cooldown_blocked
    /\ decision.action \in ScaleActions
    /\ cycle.at < last_scale_time + config.cooldown_period
    /\ cycle.patch = "none"

\* C3: last_scale_time and the scale history change only in a cycle whose
\* patch succeeded; a failed read or patch, or a cooldown block, leaves both.
C3_ScaleStateOnlyOnSuccess ==
    [][/\ (last_scale_time' # last_scale_time \/ scale_history' # scale_history)
            => (CycleStep /\ cycle'.patch = "ok")
       /\ (CycleStep /\ cycle'.patch # "ok")
            => UNCHANGED <<last_scale_time, scale_history>>]_vars

\* C3 witness: a patch was sent and failed, and nothing was recorded.
C3_Witness ==
    /\ cycle.patch = "api_exception"
    /\ decision.action \in ScaleActions
    /\ last_scale_time = None
    /\ scale_history = <<>>

\* C4: started with --dry-run, no cycle issues a patch.
C4_DryRunNeverPatches ==
    dry_run => cycle.patch = "none"

\* C5: action is scale_up if target > current, scale_down if target <
\* current, and no_change otherwise.
C5_ActionMapping ==
    decision.action # "none"
        => decision.action =
             (IF decision.target_replicas > decision.current_replicas
              THEN "scale_up"
              ELSE IF decision.target_replicas < decision.current_replicas
              THEN "scale_down"
              ELSE "no_change")

\* C6: a cycle in which the metrics queries failed (pod count 0, all
\* metrics 0) issues no patch, for every configured min/max.
C6_FailedMetricsNoPatch ==
    (cycle.ran /\ cycle.metrics = "failed") => cycle.patch = "none"

\* C7: a cycle in which feature extraction raised and the default vector
\* was used issues no patch and does not set last_scale_time.
C7_DefaultFeaturesNoPatch ==
    (cycle.ran /\ cycle.metrics = "raised")
        => /\ cycle.patch = "none"
           /\ last_scale_time # cycle.at

C9_TrainingSchedule ==
    ml_predictor.start_samples = 0
        => ml_predictor.train_log =
             {n \in 1..ml_predictor.training_samples : n >= 20 /\ n % 10 = 0}

\* C9 witness: the predictor went from zero samples past the 40th.
C9_Witness ==
    /\ ml_predictor.start_samples = 0
    /\ ml_predictor.training_samples > 40
    /\ ml_predictor.train_log = {20, 30, 40}

\* C10: is_trained implies the current regressor was fit on at least 20
\* samples.
C10_TrainedOnEnoughSamples ==
    ml_predictor.is_trained
        => /\ ml_predictor.model.fitted
           /\ ml_predictor.model.n_samples >= 20

\* C10 witness: a trained predictor that was loaded from the file of an
\* earlier run and has retrained since.
C10_Witness ==
    /\ ml_predictor.is_trained
    /\ ml_predictor.start_samples >= 20
    /\ ml_predictor.model.at > ml_predictor.start_samples

\* C11: the optimal replica count before dampening is the ML prediction,
\* and the decision source is ML, exactly when total_score >= 25 and the
\* predictor returned a prediction with confidence strictly above 0.6;
\* otherwise it is the rule-based count and the source is rule-based.
C11_FusionRule ==
    decision.action # "none"
        => LET ml_ok == /\ decision.scores.total_score >= 25 * TotalDen(config)
                        /\ decision.ml_replicas # None
                        /\ decision.ml_confidence > 6
           IN  /\ (decision.decision_source = "ml") <=> ml_ok
               /\ decision.optimal_replicas =
                     (IF ml_ok THEN decision.ml_replicas
                      ELSE decision.rule_based_replicas)
               /\ decision.scores.total_score < 25 * TotalDen(config)
                     => decision.decision_source = "rule_low_score"

\* C11 witness: a prediction with confidence exactly 0.6 that differs from
\* the rule-based count was set aside although the score was not low.
C11_Witness ==
    /\ decision.ml_confidence = 6
    /\ decision.ml_replicas # None
    /\ decision.ml_replicas # decision.rule_based_replicas
    /\ decision.scores.total_score >= 25 * TotalDen(config)
    /\ decision.decision_source = "rule_fallback"
    /\ decision.optimal_replicas = decision.rule_based_replicas

\* C12: should_scale is true exactly when one of the six conditions holds
\* (gap >= 2; score > 60 and optimal > current; score < 30 and optimal <
\* current; cpu per pod < 5 and optimal < current; cpu_trend > 50 and
\* optimal > current; optimal at min with score < 10 or at max with score
\* > 90); so with pod_count = current, a score in [30, 60], a gap below 2
\* and none of conditions 4-6 the action is no_change with target = current.
C12_Dampening ==
    decision.action # "none"
        => LET cur == decision.current_replicas
               opt == decision.optimal_replicas
               total == decision.scores.total_score
               T == TotalDen(config)
               gap == IF opt >= cur THEN opt - cur ELSE cur - opt
               c1 == gap >= 2
               c2 == total > 60 * T /\ opt > cur
               c3 == total < 30 * T /\ opt < cur
               c4 == /\ features.cpu_current < 5 * (IF cur > 1 THEN cur ELSE 1)
                     /\ opt < cur
               c5 == features.cpu_trend > 50 /\ opt > cur
               c6 == \/ opt = config.min_replicas /\ total < 10 * T
                     \/ opt = config.max_replicas /\ total > 90 * T
           IN  /\ cur = features.pod_count
               /\ decision.should_scale <=> (c1 \/ c2 \/ c3 \/ c4 \/ c5 \/ c6)
               /\ (/\ 30 * T <= total /\ total <= 60 * T
                   /\ gap < 2 /\ ~c4 /\ ~c5 /\ ~c6)
                    => /\ decision.action = "no_change"
                       /\ decision.target_replicas = cur

\* C12 witness: a one-replica gap at a middling score was dampened.
C12_Witness ==
    /\ decision.action = "no_change"
    /\ decision.optimal_replicas # decision.current_replicas
    /\ decision.scores.total_score >= 30 * TotalDen(config)
    /\ decision.scores.total_score <= 60 * TotalDen(config)
    /\ decision.target_replicas = decision.current_replicas

\* C13: for features with cpu_current = memory_current = network_total = 0
\* and pod_count > min_replicas, calculate_optimal_replicas returns
\* min_replicas and the cpu, memory and network scores are 0.
C13_IdleOptimalIsMinimum ==
    (/\ decision.action # "none"
     /\ features.cpu_current = 0
     /\ features.memory_current = 0
     /\ features.network_total = 0
     /\ features.pod_count > config.min_replicas)
        => /\ decision.rule_based_replicas = config.min_replicas
           /\ decision.scores.cpu_score = 0
           /\ decision.scores.memory_score = 0
           /\ decision.scores.network_score = 0

\* C14: for non-negative features each of cpu_score, memory_score,
\* network_score and cost_score lies in [0, 100], and so does total_score.
C14_ScoresInRange ==
    decision.action # "none"
        => LET D == ScoreDen(config)
               sc == decision.scores
           IN  /\ 0 <= sc.cpu_score /\ sc.cpu_score <= 100 * D
               /\ 0 <= sc.memory_score /\ sc.memory_score <= 100 * D
               /\ 0 <= sc.network_score /\ sc.network_score <= 100 * D
               /\ 0 <= sc.cost_score /\ sc.cost_score <= 100 * D
               /\ 0 <= sc.total_score /\ sc.total_score <= 100 * TotalDen(config)

\* C15: whatever weights are configured, when the four axis scores are all
\* equal to s the total score is s.
C15_WeightsNormalized ==
    (/\ decision.action # "none"
     /\ decision.scores.memory_score = decision.scores.cpu_score
     /\ decision.scores.network_score = decision.scores.cpu_score
     /\ decision.scores.cost_score = decision.scores.cpu_score)
        => decision.scores.total_score
             = decision.scores.cpu_score * (TotalDen(config) \div ScoreDen(config))

\* C16: the scale history never holds more than the last 100 entries.
C16_ScaleHistoryBounded ==
    Len(scale_history) <= 100

\* C17: every cycle that computed a Decision appended one entry to the
\* metrics history, whether it scaled, failed to, or was blocked by the
\* cooldown, and the metrics history holds at most 100 entries.
C17_MetricsHistoryAppended ==
    /\ (cycle.ran /\ cycle.decided) => cycle.appended
    /\ metrics_history <= 100

\* C18: a scaling cycle runs, and a patch is issued, only if the health
\* check at start returned true; when it returned false the program has
\* exited with code 1 before any cycle.
C18_StartupGate ==
    /\ cycle.ran => health = "ok"
    /\ scale_history # <<>> => health = "ok"
    /\ pc \in {"running", "sleeping"} => health = "ok"
    /\ health = "failed"
         => /\ pc = "exited"
            /\ exit_code = 1
            /\ ~cycle.ran
            /\ deployment_replicas = InitialReplicas

\* C18 witness: the health check failed and the program exited with 1.
C18_Witness ==
    /\ health = "failed"
    /\ pc = "exited"
    /\ exit_code = 1
    /\ ~cycle.ran

\* C19: the feature scaler and the regressor were always fit on the same
\* sample matrix: a train() that fails leaves both, and the trained flag,
\* as they were.
C19_RetrainAtomic ==
    /\ ml_predictor.scaler.fitted = ml_predictor.model.fitted
    /\ ml_predictor.scaler.n_samples = ml_predictor.model.n_samples
    /\ ml_predictor.scaler.at = ml_predictor.model.at

C21_NoPredictionFallsBack ==
    [][(pc = "start" /\ pc' = "decided")
         => /\ ~ml_predictor.is_trained => decision'.ml_replicas = None
            /\ decision'.ml_replicas = None
                 => /\ decision'.ml_confidence = 0
                    /\ decision'.optimal_replicas = decision'.rule_based_replicas
                    /\ decision'.decision_source
                         \in {"rule_low_score", "rule_fallback"}]_vars

\* C21 witness: a trained predictor failed to predict on a score that is not
\* low, and the decision fell back to the rules.
C21_Witness ==
    /\ model_file = TrainedFile
    /\ decision.action # "none"
    /\ decision.ml_replicas = None
    /\ decision.ml_confidence = 0
    /\ decision.decision_source = "rule_fallback"
    /\ decision.optimal_replicas = decision.rule_based_replicas

\* C22: make_decision adds exactly one training sample to the predictor
\* when the action is not no_change, and leaves the sample buffers and the
\* counter as they were when it is no_change.
C22_LearningFeedback ==
    [][(pc = "start" /\ pc' = "decided")
         => IF decision'.action # "no_change"
            THEN /\ ml_predictor'.training_features
                      = ml_predictor.training_features + 1
                 /\ ml_predictor'.training_labels
                      = ml_predictor.training_labels + 1
                 /\ ml_predictor'.training_samples
                      = ml_predictor.training_samples + 1
            ELSE /\ ml_predictor'.training_features
                      = ml_predictor.training_features
                 /\ ml_predictor'.training_labels
                      = ml_predictor.training_labels
                 /\ ml_predictor'.training_samples
                      = ml_predictor.training_samples]_vars

\* C22 witness: a scale decision on a new predictor left it with one sample.
C22_Witness ==
    /\ decision.action \in ScaleActions
    /\ model_file = NoFile
    /\ ml_predictor.training_samples = 1
    /\ ml_predictor.training_features = 1
    /\ ml_predictor.training_labels = 1

\* C23: with the default settings and no trained predictor the built-in
\* scenarios decide: low load scale_down to 1, high load scale_up to 3,
\* stable load no_change with target 3.
C23_BuiltInScenarios ==
    (/\ decision.action # "none"
     /\ model_file = NoFile
     /\ config.min_replicas = 1 /\ config.max_replicas = 10
     /\ config.weights = DefaultWeights)
        => /\ features = LowLoad
                => /\ decision.action = "scale_down"
                   /\ decision.target_replicas = 1
           /\ features = HighLoad
                => /\ decision.action = "scale_up"
                   /\ decision.target_replicas = 3
           /\ features = StableLoad
                => /\ decision.action = "no_change"
                   /\ decision.target_replicas = 3

\* C23 witness: the high-load scenario was decided under the defaults.
C23_Witness ==
    /\ features = HighLoad
    /\ model_file = NoFile
    /\ config.min_replicas = 1 /\ config.max_replicas = 10
    /\ config.weights = DefaultWeights
    /\ decision.action = "scale_up"
    /\ decision.target_replicas = 3
    /\ decision.current_replicas = 2

\* C24: the feature vector extract_features returns has the same set of
\* field names in every case: full history, fewer than 10 history samples,
\* empty history, and the default vector after a failure.
C24_FixedShape ==
    feature_names # {} => feature_names = default_feature_names

\* C25: in a scaling cycle at most one patch is issued to the orchestrator,
\* and a failed patch is not retried within that cycle: the cycle ends with
\* the one failed call and the deployment and the scaler's record of its
\* last scale as they were.
C25_AtMostOnePatch ==
    [][CycleStep =>
          /\ cycle'.patches \in {0, 1}
          /\ cycle'.patches = 1 <=> cycle'.patch # "none"
          /\ cycle'.patch \in {"api_exception", "other_exception"}
                => /\ deployment_replicas' = deployment_replicas
                   /\ last_scale_time' = last_scale_time
                   /\ scale_history' = scale_history]_vars

\* C25 witness: a cycle whose single patch call failed.
C25_Witness ==
    /\ cycle.patch = "api_exception"
    /\ cycle.patches = 1
    /\ decision.action \in ScaleActions

\* C26: last_scale_time is monotone: once set it is never reset to null,
\* and under the non-decreasing clock every update replaces it with a
\* value greater than or equal to the previous one.
C26_LastScaleTimeMonotone ==
    [][/\ now' >= now
       /\ last_scale_time # None
             => /\ last_scale_time' # None
                /\ last_scale_time' >= last_scale_time]_vars

\* C26 witness: a second successful scale replaced an earlier
\* last_scale_time with the later clock reading.
C26_Witness ==
    /\ Len(scale_history) >= 2
    /\ last_scale_time > scale_history[1].timestamp
    /\ last_scale_time = scale_history[Len(scale_history)].timestamp

\* C27: within one cycle the steps happen in the strict order metrics
\* acquisition, feature extraction, decision, actuation, history append.
\* The history append never precedes the cycle's actuation (a cycle whose
\* actuation raised appended nothing) and the decision never precedes
\* feature extraction (it is computed from the features of this cycle).
C27_StrictOrder ==
    [][CycleStep =>
          /\ \A i, j \in DOMAIN cycle'.steps :
                i < j => StepRank(cycle'.steps[i]) < StepRank(cycle'.steps[j])
          /\ cycle'.decided
                => decision'.current_replicas = features'.pod_count
          /\ cycle'.scale_read = "other_exception"
                \/ cycle'.patch = "other_exception"
                => /\ ~cycle'.appended
                   /\ metrics_history' = metrics_history]_vars

\* C27 witness: a cycle that ran all five steps, after an earlier cycle
\* had already scaled.
C27_Witness ==
    /\ cycle.steps = StepOrder
    /\ cycle.patch = "ok"
    /\ cycle.appended
    /\ Len(scale_history) >= 2

\* C28: when loading the persisted model file fails at any point (corrupt
\* file or a missing field), the loaded content is discarded and the
\* predictor starts fresh: is_trained = false, sample counter 0, empty
\* sample buffers, and a new unfitted regressor and scaler.
C28_FailedLoadStartsFresh ==
    (pc = "running" /\ LoadFails(model_file))
        => /\ ~ml_predictor.is_trained
           /\ ml_predictor.training_samples = 0
           /\ ml_predictor.training_features = 0
           /\ ml_predictor.training_labels = 0
           /\ ml_predictor.model = Unfitted
           /\ ml_predictor.scaler = Unfitted

\* C29: every field name extract_ml_features reads is a field name
\* extract_features produces, so each of the 12 entries of the ML feature
\* subvector carries the engineered value and not a constant default.
C29_MLFeaturesProduced ==
    feature_names # {} => ml_feature_names \subseteq feature_names

\* C30: the rule-based optimal replicas follow the four steps for every
\* input: cpu_based = ceil(cpu_current * pod_count / target_cpu) if
\* cpu_current > 0 else pod_count; memory_based likewise; the result is
\* cpu_based when cpu_current / max(pod_count, 1) < 10 and
\* max(cpu_based, memory_based) otherwise; and the returned value is always
\* clamped into [min_replicas, max_replicas].
C30_RuleBasedFourSteps ==
    decision.action # "none"
        => LET cpu_based ==
                   IF features.cpu_current > 0
                   THEN -((-(features.cpu_current * features.pod_count))
                              \div target_cpu)
                   ELSE features.pod_count
               memory_based ==
                   IF features.memory_current > 0
                   THEN -((-(features.memory_current * features.pod_count))
                              \div target_memory)
                   ELSE features.pod_count
               unclamped ==
                   IF features.cpu_current < 10 * Max(features.pod_count, 1)
                   THEN cpu_based
                   ELSE Max(cpu_based, memory_based)
           IN  /\ decision.rule_based_replicas >= config.min_replicas
               /\ decision.rule_based_replicas <= config.max_replicas
               /\ unclamped \in config.min_replicas..config.max_replicas
                     => decision.rule_based_replicas = unclamped
               /\ unclamped < config.min_replicas
                     => decision.rule_based_replicas = config.min_replicas
               /\ unclamped > config.max_replicas
                     => decision.rule_based_replicas = config.max_replicas

\* C30 witness: idle pods with high memory use; the cpu-based count (1) is
\* returned although the memory-based count is larger.
C30_Witness ==
    /\ decision.action # "none"
    /\ features.pod_count = MaxPods
    /\ features.cpu_current = 3
    /\ features.memory_current = 600
    /\ config.max_replicas = 10
    /\ decision.rule_based_replicas = 1

\* C31: the overall decision confidence is
\* min(1, (score_conf + cpu_trend_strength) / 2) with score_conf = 0.9 if
\* total_score > 80 or < 20, 0.7 if > 60 or < 40, else 0.5, and it lies in
\* [0, 1] for every feature vector with cpu_trend_strength in [0, 1].
\* (Confidence in twentieths, score_conf and trend strength in tenths.)
C31_DecisionConfidence ==
    (decision.action # "none" /\ features.cpu_trend_strength \in 0..10)
        => LET total == decision.scores.total_score
               T == TotalDen(config)
               score_conf ==
                   IF total > 80 * T \/ total < 20 * T THEN 9
                   ELSE IF total > 60 * T \/ total < 40 * T THEN 7
                   ELSE 5
           IN  /\ decision.confidence
                     = Min(20, score_conf + features.cpu_trend_strength)
               /\ decision.confidence \in 0..20

\* C31 witness: a middling score with the strongest trend gives
\* confidence (0.5 + 1.0) / 2 = 0.75.
C31_Witness ==
    /\ decision.action # "none"
    /\ features.cpu_trend_strength = 10
    /\ decision.scores.total_score >= 40 * TotalDen(config)
    /\ decision.scores.total_score <= 60 * TotalDen(config)
    /\ decision.confidence = 15

C33_PatchChangesReplicas ==
    [][(CycleStep /\ cycle'.read = "ok" /\ cycle'.patch # "none")
          => decision'.target_replicas # cycle'.current_replicas]_vars

\* C34: training does not depend on actuation: over any sequence of cycles
\* the number of training samples added equals the number of cycles whose
\* decision action was scale_up or scale_down, including cycles in which the
\* patch was blocked by cooldown or failed; a cooldown-blocked cycle can
\* therefore trigger a retrain.
C34_TrainingIndependentOfActuation ==
    [][/\ ml_predictor'.training_samples
            = ml_predictor.training_samples
              + (IF CycleStep /\ cycle'.decided
                    /\ decision'.action \in ScaleActions
                 THEN 1 ELSE 0)
       /\ (CycleStep /\ cycle'.decided /\ decision'.action \in ScaleActions
           /\ ShouldAutoTrain(ml_predictor'.training_samples))
             => ml_predictor'.training_samples \in ml_predictor'.train_log]_vars

\* C34 witness: a cycle blocked by the cooldown added the 30th sample and
\* ran the training scheduled there.
C34_Witness ==
    /\ cycle.cooldown_blocked
    /\ cycle.patch = "none"
    /\ ml_predictor.training_samples = 30
    /\ 30 \in ml_predictor.train_log

\* C35: the cooldown is shared by both directions and absent at start: a
\* scale action decided while last_scale_time is null is never blocked, and
\* after a successful scale a scale decided in either direction is blocked
\* for the whole cooldown period.
C35_SharedCooldown ==
    [][(CycleStep /\ cycle'.decided /\ decision'.action \in ScaleActions)
          => /\ last_scale_time = None
                   => /\ ~cycle'.cooldown_blocked
                      /\ cycle'.scale_read # "none"
             /\ (/\ last_scale_time # None
                 /\ now < last_scale_time + config.cooldown_period)
                   => /\ cycle'.cooldown_blocked
                      /\ cycle'.scale_read = "none"
                      /\ cycle'.patch = "none"]_vars

\* C35 witness: the one successful scale so far went up (its target is
\* above every pod count), and a scale down decided within the cooldown
\* period was blocked.
C35_Witness ==
    /\ Len(scale_history) = 1
    /\ scale_history[1].replicas > MaxPods
    /\ decision.action = "scale_down"
    /\ cycle.cooldown_blocked
    /\ cycle.at < last_scale_time + config.cooldown_period

\* C36: a cycle never stops the loop: whatever is raised inside a scaling
\* cycle is caught within that cycle, which ends with the loop going to its
\* sleep; the loop leaves only by an operator interrupt; and absent an
\* interrupt the loop goes on from the sleep to start the next cycle (as
\* long as the modelled clock has a next reading).
C36_CycleNeverStopsLoop ==
    /\ [][CycleStep => (pc' = "sleeping" /\ exit_code' = exit_code)]_vars
    /\ [][(pc \in {"running", "sleeping"} /\ pc' \notin {"running", "sleeping"})
             => (pc' = "stopped" /\ exit_code' = 0)]_vars
    /\ (pc = "sleeping" /\ now + config.check_interval <= MaxTime)
           ~> (pc = "running" \/ pc = "stopped")

\* C36 witness: a cycle ended in its except clause, the loop slept and is
\* about to start the next cycle.
C36_Witness ==
    /\ Raised(cycle)
    /\ pc = "running"
    /\ now > cycle.at

\* C37: in every Decision, action = no_change implies
\* target_replicas = current_replicas and the control loop issues no patch
\* in that cycle; any other action implies target_replicas equals the
\* optimal replica count computed before the dampening.
C37_TargetFollowsAction ==
    cycle.decided
        => /\ decision.action = "no_change"
                => /\ decision.target_replicas = decision.current_replicas
                   /\ cycle.scale_read = "none"
                   /\ cycle.patch = "none"
                   /\ cycle.patches = 0
           /\ decision.action # "no_change"
                => /\ decision.target_replicas = decision.optimal_replicas
                   /\ decision.optimal_replicas
                        = (IF decision.decision_source = "ml"
                           THEN decision.ml_replicas
                           ELSE decision.rule_based_replicas)

\* C37 witness: the dampening kept a Decision at no_change although the
\* optimal count, taken from the predictor, was another one.
C37_Witness ==
    /\ cycle.decided
    /\ decision.action = "no_change"
    /\ decision.decision_source = "ml"
    /\ decision.optimal_replicas # decision.current_replicas
    /\ decision.target_replicas = decision.current_replicas
    /\ cycle.patch = "none"

\* C38: in every reachable state of MLPredictor the feature buffer and the
\* label buffer have the same length, and that length never exceeds the
\* sample counter training_samples (after a reload the buffer holds at most
\* 100 samples while the counter keeps the full count).
C38_BuffersAligned ==
    /\ ml_predictor.training_features = ml_predictor.training_labels
    /\ ml_predictor.training_features <= ml_predictor.training_samples
    /\ ml_predictor.start_samples > keep_last
          => ml_predictor.training_features
               = keep_last + (ml_predictor.training_samples
                              - ml_predictor.start_samples)

\* C38 witness: a predictor reloaded from a file saved after more than 100
\* samples has added one more: 101 buffered samples, a larger counter.
C38_Witness ==
    /\ ml_predictor.start_samples > keep_last
    /\ ml_predictor.training_samples = ml_predictor.start_samples + 1
    /\ ml_predictor.training_features = keep_last + 1
    /\ ml_predictor.training_labels = keep_last + 1

\* C39: in the V2 autoscaler every replica count set_replicas passes to the
\* orchestrator lies in [min_replicas, max_replicas], whatever the heuristic
\* or the model predicted, and a patch is attempted only in iterations where
\* the predicted count differs from the current count and a dampening
\* condition holds.
C39_V2PatchWithinLimits ==
    v2.patched # None
        => /\ v2.patched >= 1
           /\ v2.patched <= 6
           /\ v2.predicted_replicas # None
           /\ v2.current_replicas # None
           /\ v2.predicted_replicas # v2.current_replicas
           /\ \/ /\ v2.predicted_replicas > v2.current_replicas
                 /\ v2.cpu_millicores > 250
              \/ /\ v2.predicted_replicas < v2.current_replicas
                 /\ v2.cpu_millicores < 50
              \/ v2.predicted_replicas - v2.current_replicas >= 2
              \/ v2.current_replicas - v2.predicted_replicas >= 2
              \/ v2.predicted_replicas = 1 /\ v2.cpu_millicores < 100
              \/ v2.predicted_replicas = 6 /\ v2.cpu_millicores > 800

\* C39 witness: the heuristic recommended 7 replicas (the pods counted on a
\* deployment someone scaled to 9), and set_replicas patched 6.
C39_Witness ==
    /\ v2.predicted_replicas = 7
    /\ v2.current_replicas = 9
    /\ v2.patched = 6
    /\ v2.replicas = 6

=============================================================================
